---- MODULE Spec2Model ----
(***************************************************************************)
(* State-machine model of qiita_adcal_crawler.py: the CalendarCrawler      *)
(* session (get_page, iterate_pagination, crawl_calendars, crawl_calendar, *)
(* parse_calendar_items, crawl_likers, is_qiita_item) and the two commands *)
(* `calendars` and `likers` that drive it.                                 *)
(*                                                                         *)
(* URLs are sequences of string segments: the first segment of an absolute *)
(* URL is its origin ("https://qiita.com/"), the others are path segments. *)
(* The web site is a fixed structure chosen in Init; which requests fail   *)
(* with a transient error is chosen by the environment at response time.   *)
(***************************************************************************)
EXTENDS Integers, Sequences, FiniteSets, TLC

VARIABLES
    cmd,            \* which entry point runs: "calendars", "likers", "walk"
    category,       \* --category option (NoCategory when absent)
    web,            \* the site: layout of listing, detail and liker pages
    request_count,  \* CalendarCrawler.request_count
    pc,             \* control position of the running operation
    next_url,       \* iterate_pagination: next_url
    soup,           \* the document held by the running code
    inflight,       \* requests sent whose response has not arrived yet
    calendar_ids,   \* the commands' calendar_ids list
    cal_idx,        \* position of the commands' loop over calendar_ids
    items,          \* crawl_likers: items returned by crawl_calendar
    item_idx,       \* crawl_likers: position of the loop over items
    calendars_file, \* rows written to calendars.tsv
    items_file,     \* rows written to items.tsv
    likers_file,    \* rows written to likers.tsv
    error,          \* the exception that ended the operation, if any
    log,            \* history: sleeps, GETs and responses, in order
    caller,         \* the consumer of the running iterate_pagination
    walker,         \* history of the current iterate_pagination invocation
    walk_no,        \* iterate_pagination invocations started so far
    fails           \* transient failures the environment has produced

vars == <<cmd, category, web, request_count, pc, next_url, soup, inflight,
          calendar_ids, cal_idx, items, item_idx, calendars_file, items_file,
          likers_file, error, log, caller, walker, walk_no, fails>>

----------------------------------------------------------------------------
(* Bounds of the model *)

\* listing pages in a chain
MaxPages == 2
\* calendars listed over the whole chain
MaxCals == 3
\* day cells on a detail page
MaxItems == 3
\* pages of one item's liker chain
MaxLikerPages == 2
\* user cards on one liker page
MaxUsers == 2
\* transient (503) failures the environment produces in one session
MaxFailures == 2
\* iterate_pagination invocations of the direct consumer
MaxWalks == 2

(* Program constants and inputs *)

WAIT_SEC == 1
Year == 2023

OK == 200
NOT_FOUND == 404
UNAVAILABLE == 503

Site == <<"https://qiita.com/">>
Elsewhere == <<"https://example.com/">>
Origins == {Site[1], Elsewhere[1]}

\* Python's None, as a URL / a category / a string field
None == <<"None">>
NoCategory == "None"

\* str(year) in the URL templates
Str(n) == IF n = 2023 THEN "2023" ELSE "0"

CalIds == <<"cal-a", "cal-b", "cal-c", "cal-d", "cal-e">>
DayTok == <<"d1", "d2", "d3", "d4", "d5">>
PageTok == <<"p1", "p2", "p3", "p4", "p5">>
PosTok == <<"k1", "k2", "k3", "k4", "k5">>

----------------------------------------------------------------------------
(* URL helpers *)

Last(s) == s[Len(s)]

StartsWith(u, prefix) ==
    /\ Len(u) >= Len(prefix)
    /\ SubSeq(u, 1, Len(prefix)) = prefix

\* '/seg/' in url: seg is a path segment that is not the last one
ContainsSegment(u, seg) == \E i \in 2..(Len(u) - 1) : u[i] = seg

\* urljoin(base, href) for a base that is a bare origin
urljoin(base, href) ==
    IF Len(href) > 0 /\ href[1] \in Origins THEN href ELSE base \o href

calendars_url(year) == Site \o <<"advent-calendar", Str(year), "calendars">>
categories_url(year, cat) ==
    Site \o <<"advent-calendar", Str(year), "categories", cat>>
calendar_url(year, calendar_id) ==
    Site \o <<"advent-calendar", Str(year), calendar_id>>

\* crawl_calendars: the listing endpoint
ListingUrl(year, cat) ==
    IF cat # NoCategory THEN categories_url(year, cat) ELSE calendars_url(year)

\* the filter without its private-path test
is_qiita_item_any_path(url) ==
    /\ url # None
    /\ url # <<>>
    /\ StartsWith(url, Site)

is_qiita_item(url) ==
    /\ url # None
    /\ url # <<>>
    /\ StartsWith(url, Site)
    /\ ~ContainsSegment(url, "private")

likers_url(item_url) == item_url \o <<"likers">>

----------------------------------------------------------------------------
(* Text helpers *)

\* str.strip(): drop the leading and trailing blanks of a text
RECURSIVE LStrip(_)
LStrip(t) == IF t # <<>> /\ Head(t) = " " THEN LStrip(Tail(t)) ELSE t

RECURSIVE RStrip(_)
RStrip(t) ==
    IF t # <<>> /\ Last(t) = " " THEN RStrip(SubSeq(t, 1, Len(t) - 1)) ELSE t

Strip(t) == RStrip(LStrip(t))

\* int(text) for the texts the site prints in a date cell or a counter
Digits == <<"1", "2", "3", "4", "5", "6", "7", "8", "9">>
int(t) == CHOOSE n \in 1..Len(Digits) : Digits[n] = t

----------------------------------------------------------------------------
(* The site.  A layout w says how many listing pages there are (w.pages),  *)
(* how many calendars they list (w.cals), which day cells every calendar   *)
(* has (w.cells), how long an item's chain of liker pages is               *)
(* (w.liker_pages) and where the single schema fault of the site is, if    *)
(* any (w.fault).                                                          *)

CellKinds == {"empty", "author", "text", "own", "anon", "private", "foreign"}

NoFault == [kind |-> "none", cal |-> 0, item |-> 0, page |-> 0, pos |-> 0]

EmptyDoc ==
    [next |-> None, rows |-> <<>>, h1 |-> None, category |-> None,
     stats |-> <<>>, cells |-> <<>>, users |-> <<>>]

\* listing rows are dealt to the pages in order, the first pages taking the
\* remainder
RowsOnPage(w, p) ==
    (w.cals \div w.pages) + (IF p <= w.cals % w.pages THEN 1 ELSE 0)

FirstRow(w, p) ==
    1 + (p - 1) * (w.cals \div w.pages)
      + (IF p - 1 <= w.cals % w.pages THEN p - 1 ELSE w.cals % w.pages)

ListingPageUrl(start, p) == IF p = 1 THEN start ELSE start \o <<PageTok[p]>>

ListingDoc(w, start, p) ==
    [EmptyDoc EXCEPT
        !.rows = [j \in 1..RowsOnPage(w, p) |->
                    LET r == FirstRow(w, p) + j - 1 IN
                    IF w.fault.kind = "bad_row" /\ w.fault.cal = r
                    THEN [anchor |-> FALSE, text |-> None, href |-> None]
                    ELSE [anchor |-> TRUE,
                          text |-> <<"title", CalIds[r]>>,
                          href |-> <<"advent-calendar", Str(Year), CalIds[r]>>]],
        !.next = IF p < w.pages
                 THEN Tail(ListingPageUrl(start, p + 1))
                 ELSE None]

ItemHref(kind, c, i) ==
    CASE kind \in {"own", "anon"} -> Site \o <<CalIds[c], "items", DayTok[i]>>
      [] kind = "private" -> Site \o <<CalIds[c], "private", DayTok[i]>>
      [] kind = "foreign" -> Elsewhere \o <<CalIds[c], DayTok[i]>>
      [] OTHER -> None

CellOf(kind, c, i) ==
    [date_text |-> Digits[i],
     author |-> kind \notin {"empty", "anon"},
     author_text |-> <<" ", "author", DayTok[i], " ">>,
     author_href |-> <<"author", DayTok[i]>>,
     comment |-> kind \notin {"empty", "author"},
     comment_text |-> <<"entry", CalIds[c], DayTok[i]>>,
     link |-> kind \in {"own", "anon", "private", "foreign"},
     link_href |-> ItemHref(kind, c, i)]

DetailDoc(w, c) ==
    [EmptyDoc EXCEPT
        !.h1 = IF w.fault.kind = "bad_detail" /\ w.fault.cal = c
               THEN None ELSE <<"title", CalIds[c]>>,
        !.category = <<"category", CalIds[c]>>,
        !.stats = <<Digits[c], Digits[c + 1], Digits[c + 2]>>,
        !.cells = [i \in 1..Len(w.cells) |-> CellOf(w.cells[i], c, i)]]

\* every page of a chain but the last is full
UsersOnPage(w, p) == IF p < w.liker_pages THEN MaxUsers ELSE 1

LikersPageUrl(item_url, p) ==
    IF p = 1 THEN likers_url(item_url)
    ELSE likers_url(item_url) \o <<PageTok[p]>>

LikersDoc(w, c, i, p) ==
    [EmptyDoc EXCEPT
        !.users = [k \in 1..UsersOnPage(w, p) |->
                    [name |-> ~(/\ w.fault.kind = "bad_user"
                                /\ w.fault.cal = c /\ w.fault.item = i
                                /\ w.fault.page = p /\ w.fault.pos = k),
                     name_text |-> <<"user", CalIds[c], DayTok[i], PageTok[p], PosTok[k]>>,
                     href |-> <<"users", CalIds[c], DayTok[i], PageTok[p], PosTok[k]>>]],
        !.next = IF p < w.liker_pages
                 THEN Tail(LikersPageUrl(ItemHref(w.cells[i], c, i), p + 1))
                 ELSE None]

Starts == {calendars_url(Year), categories_url(Year, "web")}

\* the page the site serves at url: [found, doc]
Serve(w, url) ==
    IF \E s \in Starts, p \in 1..w.pages : url = ListingPageUrl(s, p)
    THEN LET sp == CHOOSE sp \in Starts \X (1..w.pages) :
                       url = ListingPageUrl(sp[1], sp[2])
         IN [found |-> TRUE, doc |-> ListingDoc(w, sp[1], sp[2])]
    ELSE IF \E c \in 1..w.cals :
               /\ url = calendar_url(Year, CalIds[c])
               /\ ~(w.fault.kind = "gone" /\ w.fault.cal = c)
    THEN LET c == CHOOSE c \in 1..w.cals : url = calendar_url(Year, CalIds[c])
         IN [found |-> TRUE, doc |-> DetailDoc(w, c)]
    ELSE IF \E c \in 1..w.cals, i \in 1..Len(w.cells), p \in 1..w.liker_pages :
               /\ w.cells[i] \in {"own", "anon", "private"}
               /\ url = LikersPageUrl(ItemHref(w.cells[i], c, i), p)
    THEN LET t == CHOOSE t \in (1..w.cals) \X (1..Len(w.cells)) \X (1..w.liker_pages) :
                      /\ w.cells[t[2]] \in {"own", "anon", "private"}
                      /\ url = LikersPageUrl(ItemHref(w.cells[t[2]], t[1], t[2]), t[3])
         IN [found |-> TRUE, doc |-> LikersDoc(w, t[1], t[2], t[3])]
    ELSE [found |-> FALSE, doc |-> EmptyDoc]

----------------------------------------------------------------------------
(* Parsing *)

\* index of the first FALSE of a sequence of flags, or Len(flags) + 1
FirstBad(flags) ==
    IF \E i \in 1..Len(flags) : ~flags[i]
    THEN CHOOSE i \in 1..Len(flags) :
             ~flags[i] /\ \A j \in 1..(i - 1) : flags[j]
    ELSE Len(flags) + 1

\* a row parser that takes the wrong path segment for the id
ParseRowYearAsId(tr) ==
    LET url == urljoin(Site, tr.href) IN
    [calendar_id |-> url[Len(url) - 1], title |-> tr.text, url |-> url]

\* crawl_calendars, one row: (calendar_id, title, url)
ParseRow(tr) ==
    LET url == urljoin(Site, tr.href) IN
    [calendar_id |-> Last(url), title |-> tr.text, url |-> url]

\* a row test that lets a row without a title anchor through
RowOkLenient(tr) == TRUE

\* crawl_calendars, one row: title_link is an element, not None
RowOk(tr) == tr.anchor

\* a page parser that stops after the first row of a page
ParseListingFirstRowOnly(doc) ==
    LET b == FirstBad([j \in 1..Len(doc.rows) |-> RowOk(doc.rows[j])]) IN
    [refs |-> [j \in 1..(IF b > 1 THEN 1 ELSE 0) |-> ParseRow(doc.rows[j])],
     ok |-> b > Len(doc.rows)]

\* crawl_calendars, one page: the references yielded before the first row
\* without a title anchor (AttributeError there)
ParseListing(doc) ==
    LET b == FirstBad([j \in 1..Len(doc.rows) |-> RowOk(doc.rows[j])]) IN
    [refs |-> [j \in 1..(b - 1) |-> ParseRow(doc.rows[j])],
     ok |-> b > Len(doc.rows)]

\* a cell parser that looks for the comment only in a cell with an author
ParseCellCommentNeedsAuthor(year, calendar_id, td) ==
    [year |-> year,
     calendar_id |-> calendar_id,
     date |-> int(td.date_text),
     user_name |-> IF td.author THEN Strip(td.author_text) ELSE None,
     user_url |-> IF td.author THEN urljoin(Site, td.author_href) ELSE None,
     title |-> IF td.author /\ td.comment THEN td.comment_text ELSE None,
     url |-> IF td.author /\ td.comment /\ td.link THEN td.link_href ELSE None]

\* parse_calendar_items, one day cell
ParseCell(year, calendar_id, td) ==
    [year |-> year,
     calendar_id |-> calendar_id,
     date |-> int(td.date_text),
     user_name |-> IF td.author THEN Strip(td.author_text) ELSE None,
     user_url |-> IF td.author THEN urljoin(Site, td.author_href) ELSE None,
     title |-> IF td.comment THEN td.comment_text ELSE None,
     url |-> IF td.comment /\ td.link THEN td.link_href ELSE None]

parse_calendar_items(year, calendar_id, doc) ==
    [i \in 1..Len(doc.cells) |-> ParseCell(year, calendar_id, doc.cells[i])]

\* a detail parser that tolerates missing elements
DetailOkLenient(doc) == TRUE

DetailOk(doc) == doc.h1 # None /\ doc.category # None /\ Len(doc.stats) >= 3

\* a detail parser that reads the likes before the participants
ParseDetailSwapsStats(year, calendar_id, doc) ==
    [calendar |-> [year |-> year,
                   calendar_id |-> calendar_id,
                   title |-> doc.h1,
                   url |-> calendar_url(year, calendar_id),
                   category |-> doc.category,
                   participants_count |-> int(doc.stats[2]),
                   likes_count |-> int(doc.stats[1]),
                   subscribers_count |-> int(doc.stats[3])],
     items |-> parse_calendar_items(year, calendar_id, doc)]

\* crawl_calendar after get_page: (Calendar, items)
ParseDetail(year, calendar_id, doc) ==
    [calendar |-> [year |-> year,
                   calendar_id |-> calendar_id,
                   title |-> doc.h1,
                   url |-> calendar_url(year, calendar_id),
                   category |-> doc.category,
                   participants_count |-> int(doc.stats[1]),
                   likes_count |-> int(doc.stats[2]),
                   subscribers_count |-> int(doc.stats[3])],
     items |-> parse_calendar_items(year, calendar_id, doc)]

UserOk(user_el) == user_el.name

ParseUser(year, calendar_id, date, user_el) ==
    [year |-> year, calendar_id |-> calendar_id, date |-> date,
     user_name |-> user_el.name_text,
     user_url |-> urljoin(Site, user_el.href)]

\* a page parser that yields the user cards of a page last card first
ParseLikersReversed(year, calendar_id, date, doc) ==
    LET b == FirstBad([k \in 1..Len(doc.users) |-> UserOk(doc.users[k])]) IN
    [likers |-> [k \in 1..(b - 1) |->
                    ParseUser(year, calendar_id, date, doc.users[b - k])],
     ok |-> b > Len(doc.users)]

\* crawl_likers, one page: the Likers yielded before the first user card
\* without a name element (AttributeError there)
ParseLikers(year, calendar_id, date, doc) ==
    LET b == FirstBad([k \in 1..Len(doc.users) |-> UserOk(doc.users[k])]) IN
    [likers |-> [k \in 1..(b - 1) |->
                    ParseUser(year, calendar_id, date, doc.users[k])],
     ok |-> b > Len(doc.users)]

\* a walker that never follows the next link
NextUrlNeverFollows(doc) == None

\* iterate_pagination after the yield: the next URL, or None
NextUrl(doc) == IF doc.next # None THEN urljoin(Site, doc.next) ELSE None

----------------------------------------------------------------------------
(* Records *)

CalendarFields ==
    <<"year", "calendar_id", "title", "url", "category",
      "participants_count", "likes_count", "subscribers_count">>
ItemFields ==
    <<"year", "calendar_id", "date", "user_name", "user_url", "title", "url">>
LikerFields == <<"year", "calendar_id", "date", "user_name", "user_url">>

NoError == [type |-> "none", status_code |-> 0]
\* an exception that drops the status code of the response
HttpExceptionNoCode(status_code) ==
    [type |-> "HttpException", status_code |-> 0]

HttpException(status_code) ==
    [type |-> "HttpException", status_code |-> status_code]
AttributeError == [type |-> "AttributeError", status_code |-> 0]
ValueError == [type |-> "ValueError", status_code |-> 0]

NoWalker == [start |-> None, fetched |-> <<>>, yielded |-> <<>>, state |-> "None"]
NewWalker(url) ==
    [start |-> url, fetched |-> <<>>, yielded |-> <<>>, state |-> "Start"]

----------------------------------------------------------------------------
(* Initial states *)

Faults(w) ==
    {NoFault}
    \cup {[NoFault EXCEPT !.kind = k, !.cal = c] :
            k \in {"bad_row", "bad_detail", "gone"}, c \in 1..w.cals}
    \cup {[kind |-> "bad_user", cal |-> t[1], item |-> t[2], page |-> t[3],
           pos |-> t[4]] :
            t \in {t \in (1..w.cals) \X (1..Len(w.cells))
                         \X (1..w.liker_pages) \X (1..MaxUsers) :
                     /\ w.cells[t[2]] \in {"own", "anon"}
                     /\ t[4] <= UsersOnPage(w, t[3])}}

\* day cells: own-site items, at most one of them of another kind
CellRows ==
    UNION {{[i \in 1..n |-> "own"]}
           \cup {[i \in 1..n |-> IF i = j THEN k ELSE "own"] :
                    j \in 1..n, k \in CellKinds \ {"own"}} : n \in 0..MaxItems}

\* sites that vary in the listing: each calendar has one own-site item with
\* a one-page liker chain
ListingSites ==
    {[pages |-> p, cals |-> c, cells |-> <<"own">>, liker_pages |-> 1,
      fault |-> NoFault] : p \in 1..MaxPages, c \in 0..MaxCals}

\* sites that vary in the day cells and liker chains of their one calendar
ItemSites ==
    {[pages |-> 1, cals |-> 1, cells |-> cs, liker_pages |-> l,
      fault |-> NoFault] : cs \in CellRows, l \in 1..MaxLikerPages}

Sites ==
    UNION {{[w EXCEPT !.fault = f] : f \in Faults(w)} :
              w \in ListingSites \cup ItemSites}

Init ==
    /\ cmd \in {"calendars", "likers", "walk"}
    /\ web \in Sites
    /\ category \in {NoCategory, "web"}
    /\ cmd = "walk" => web \in ListingSites /\ category = NoCategory
    /\ category # NoCategory => web \in ListingSites /\ cmd = "calendars"
    /\ request_count = 0
    /\ pc = "start"
    /\ next_url = None
    /\ soup = EmptyDoc
    /\ inflight = <<>>
    /\ calendar_ids = <<>>
    /\ cal_idx = 0
    /\ items = <<>>
    /\ item_idx = 0
    /\ calendars_file = <<>>
    /\ items_file = <<>>
    /\ likers_file = <<>>
    /\ error = NoError
    /\ log = <<>>
    /\ caller = "none"
    /\ walker = NoWalker
    /\ walk_no = 0
    /\ fails = 0

----------------------------------------------------------------------------
(* get_page *)

\* get_page that sleeps only before the first request of the session
GetPageSleepsOnce(url) ==
    /\ request_count' = request_count + 1
    /\ log' = log \o (IF request_count = 0
                      THEN <<[ev |-> "sleep", url |-> None, arg |-> WAIT_SEC]>>
                      ELSE <<>>)
                  \o <<[ev |-> "get", url |-> url, arg |-> 0]>>
    /\ inflight' = Append(inflight, url)

\* get_page that forgets to count
GetPageUncounted(url) ==
    /\ request_count' = request_count
    /\ log' = log \o <<[ev |-> "sleep", url |-> None, arg |-> WAIT_SEC],
                       [ev |-> "get", url |-> url, arg |-> 0]>>
    /\ inflight' = Append(inflight, url)

\* get_page up to requests.get: count the request, sleep, send the GET
GetPage(url) ==
    /\ request_count' = request_count + 1
    /\ log' = log \o <<[ev |-> "sleep", url |-> None, arg |-> WAIT_SEC],
                       [ev |-> "get", url |-> url, arg |-> 0]>>
    /\ inflight' = Append(inflight, url)

\* what the site may answer to a GET of url: 404 for a page it does not
\* have, else the page, or a transient 503 while the environment has some left
Responses(url) ==
    LET s == Serve(web, url) IN
    IF ~s.found
    THEN {[status |-> NOT_FOUND, doc |-> EmptyDoc]}
    ELSE {[status |-> OK, doc |-> s.doc]}
         \cup (IF fails < MaxFailures
               THEN {[status |-> UNAVAILABLE, doc |-> EmptyDoc]}
               ELSE {})

\* get_page from requests.get on: the response r arrives
Arrive(r) ==
    /\ log' = Append(log, [ev |-> "resp", url |-> Head(inflight), arg |-> r.status])
    /\ inflight' = Tail(inflight)
    /\ fails' = IF r.status = UNAVAILABLE THEN fails + 1 ELSE fails

----------------------------------------------------------------------------
(* iterate_pagination and its consumers *)

\* no handler around the liker walk: every exception ends the operation
PropagateUncaught(e) ==
    /\ pc' = IF caller = "direct" THEN "idle" ELSE "done"
    /\ error' = e
    /\ UNCHANGED item_idx

\* a handler in crawl_likers that asks again for the page that failed
PropagateRetries(e) ==
    IF caller = "crawl_likers"
    THEN /\ pc' = "pg_loop"
         /\ UNCHANGED <<item_idx, error>>
    ELSE /\ pc' = IF caller = "direct" THEN "idle" ELSE "done"
         /\ error' = e
         /\ UNCHANGED item_idx

\* an exception e leaves the running iterate_pagination: the list
\* comprehension of a command and the direct consumer let it through,
\* crawl_likers catches it and goes on with the next item
Propagate(e) ==
    IF caller = "crawl_likers"
    THEN /\ pc' = "item_loop"
         /\ item_idx' = item_idx + 1
         /\ UNCHANGED error
    ELSE /\ pc' = IF caller = "direct" THEN "idle" ELSE "done"
         /\ error' = e
         /\ UNCHANGED item_idx

\* a command starts: crawl_calendars builds the listing URL and the list
\* comprehension starts to consume iterate_pagination(url)
Enumerate ==
    /\ cmd \in {"calendars", "likers"}
    /\ pc = "start"
    /\ next_url' = ListingUrl(Year, category)
    /\ walker' = NewWalker(ListingUrl(Year, category))
    /\ walk_no' = walk_no + 1
    /\ caller' = "crawl_calendars"
    /\ pc' = "pg_loop"
    /\ UNCHANGED <<cmd, category, web, request_count, soup, inflight,
                   calendar_ids, cal_idx, items, item_idx, calendars_file,
                   items_file, likers_file, error, log, fails>>

\* a direct consumer calls iterate_pagination on the listing URL
WalkBegin ==
    /\ cmd = "walk"
    /\ pc \in {"start", "idle"}
    /\ walk_no < MaxWalks
    /\ next_url' = ListingUrl(Year, category)
    /\ walker' = NewWalker(ListingUrl(Year, category))
    /\ walk_no' = walk_no + 1
    /\ caller' = "direct"
    /\ error' = NoError
    /\ pc' = "pg_loop"
    /\ UNCHANGED <<cmd, category, web, request_count, soup, inflight,
                   calendar_ids, cal_idx, items, item_idx, calendars_file,
                   items_file, likers_file, log, fails>>

\* while next_url: soup = self.get_page(next_url), up to the GET
PaginationFetch ==
    /\ pc = "pg_loop"
    /\ next_url # None
    /\ GetPage(next_url)
    /\ walker' = [walker EXCEPT !.fetched = Append(@, next_url)]
    /\ pc' = "pg_wait"
    /\ UNCHANGED <<cmd, category, web, next_url, soup, calendar_ids, cal_idx,
                   items, item_idx, calendars_file, items_file, likers_file,
                   error, caller, walk_no, fails>>

\* while next_url: next_url is None, the generator returns
PaginationExhausted ==
    /\ pc = "pg_loop"
    /\ next_url = None
    /\ walker' = [walker EXCEPT !.state = "Exhausted"]
    /\ pc' = IF caller = "crawl_calendars" THEN "open"
             ELSE IF caller = "crawl_likers" THEN "item_loop" ELSE "idle"
    /\ item_idx' = IF caller = "crawl_likers" THEN item_idx + 1 ELSE item_idx
    /\ caller' = "none"
    /\ UNCHANGED <<cmd, category, web, request_count, next_url, soup, inflight,
                   calendar_ids, cal_idx, items, calendars_file, items_file,
                   likers_file, error, log, walk_no, fails>>

\* an eager walker: before it yields a page it already requests the next
PaginationYieldPrefetching ==
    /\ pc = "pg_wait"
    /\ \E r \in Responses(Head(inflight)) :
        /\ r.status = OK
        /\ soup' = r.doc
        /\ UNCHANGED fails
        /\ IF NextUrl(r.doc) # None
           THEN /\ request_count' = request_count + 1
                /\ log' = log \o
                    <<[ev |-> "resp", url |-> Head(inflight), arg |-> r.status],
                      [ev |-> "sleep", url |-> None, arg |-> WAIT_SEC],
                      [ev |-> "get", url |-> NextUrl(r.doc), arg |-> 0]>>
                /\ inflight' = <<NextUrl(r.doc)>>
                /\ walker' = [walker EXCEPT
                                !.fetched = Append(@, NextUrl(r.doc)),
                                !.yielded = Append(@, Head(inflight)),
                                !.state = "FetchedPage"]
           ELSE /\ UNCHANGED request_count
                /\ log' = Append(log, [ev |-> "resp", url |-> Head(inflight),
                                       arg |-> r.status])
                /\ inflight' = Tail(inflight)
                /\ walker' = [walker EXCEPT
                                !.yielded = Append(@, Head(inflight)),
                                !.state = "FetchedPage"]
    /\ pc' = "pg_page"
    /\ UNCHANGED <<cmd, category, web, next_url, calendar_ids,
                   cal_idx, items, item_idx, calendars_file, items_file,
                   likers_file, error, caller, walk_no>>

\* get_page returns the parsed page and iterate_pagination yields it
PaginationYield ==
    /\ pc = "pg_wait"
    /\ \E r \in Responses(Head(inflight)) :
        /\ r.status = OK
        /\ Arrive(r)
        /\ soup' = r.doc
    /\ walker' = [walker EXCEPT !.yielded = Append(@, Head(inflight)),
                                !.state = "FetchedPage"]
    /\ pc' = "pg_page"
    /\ UNCHANGED <<cmd, category, web, request_count, next_url, calendar_ids,
                   cal_idx, items, item_idx, calendars_file, items_file,
                   likers_file, error, caller, walk_no>>

\* get_page raises HttpException inside iterate_pagination
PaginationRaise ==
    /\ pc = "pg_wait"
    /\ \E r \in Responses(Head(inflight)) :
        /\ r.status # OK
        /\ Arrive(r)
        /\ Propagate(HttpException(r.status))
    /\ walker' = [walker EXCEPT !.state = "Failed"]
    /\ caller' = "none"
    /\ UNCHANGED <<cmd, category, web, request_count, next_url, soup,
                   calendar_ids, cal_idx, items, calendars_file, items_file,
                   likers_file, walk_no>>

\* iterate_pagination resumed after the yield: look for the rel=next link
Resume ==
    /\ next_url' = NextUrl(soup)
    /\ pc' = "pg_loop"

\* crawl_calendars, the body of the loop over one listing page, the list
\* comprehension collecting the ids; then the next page is asked for
ListingPage ==
    /\ pc = "pg_page"
    /\ caller = "crawl_calendars"
    /\ LET r == ParseListing(soup) IN
        /\ calendar_ids' = calendar_ids
                \o [j \in 1..Len(r.refs) |-> r.refs[j].calendar_id]
        /\ IF r.ok
           THEN /\ Resume
                /\ UNCHANGED <<error, walker, caller>>
           ELSE /\ pc' = "done"
                /\ error' = AttributeError
                /\ walker' = [walker EXCEPT !.state = "Closed"]
                /\ caller' = "none"
                /\ UNCHANGED next_url
    /\ UNCHANGED <<cmd, category, web, request_count, soup, inflight, cal_idx,
                   items, item_idx, calendars_file, items_file, likers_file,
                   log, walk_no, fails>>

\* the direct consumer asks for the next page
WalkNext ==
    /\ pc = "pg_page"
    /\ caller = "direct"
    /\ Resume
    /\ UNCHANGED <<cmd, category, web, request_count, soup, inflight,
                   calendar_ids, cal_idx, items, item_idx, calendars_file,
                   items_file, likers_file, error, log, caller, walker,
                   walk_no, fails>>

\* the direct consumer stops iterating
WalkStop ==
    /\ pc = "pg_page"
    /\ caller = "direct"
    /\ pc' = "idle"
    /\ walker' = [walker EXCEPT !.state = "Closed"]
    /\ caller' = "none"
    /\ UNCHANGED <<cmd, category, web, request_count, next_url, soup, inflight,
                   calendar_ids, cal_idx, items, item_idx, calendars_file,
                   items_file, likers_file, error, log, walk_no, fails>>

----------------------------------------------------------------------------
(* The commands *)

\* the listing is exhausted: the command opens its output, writes the
\* header rows and computes max_len, which raises ValueError for no calendar
OpenOutputs ==
    /\ pc = "open"
    /\ IF cmd = "calendars"
       THEN /\ calendars_file' = <<CalendarFields>>
            /\ items_file' = <<ItemFields>>
            /\ UNCHANGED likers_file
       ELSE /\ likers_file' = <<LikerFields>>
            /\ UNCHANGED <<calendars_file, items_file>>
    /\ IF calendar_ids = <<>>
       THEN /\ error' = ValueError
            /\ pc' = "done"
            /\ UNCHANGED cal_idx
       ELSE /\ cal_idx' = 1
            /\ pc' = "cal_loop"
            /\ UNCHANGED error
    /\ UNCHANGED <<cmd, category, web, request_count, next_url, soup, inflight,
                   calendar_ids, items, item_idx, log, caller, walker,
                   walk_no, fails>>

\* for calendar_id in pbar: crawl_calendar (directly, or as the first step
\* of crawl_likers) builds the detail URL and calls get_page
CalendarFetch ==
    /\ pc = "cal_loop"
    /\ cal_idx <= Len(calendar_ids)
    /\ GetPage(calendar_url(Year, calendar_ids[cal_idx]))
    /\ pc' = "detail_wait"
    /\ UNCHANGED <<cmd, category, web, next_url, soup, calendar_ids, cal_idx,
                   items, item_idx, calendars_file, items_file, likers_file,
                   error, caller, walker, walk_no, fails>>

\* the loop over calendar_ids ends: the command reports and returns
CommandDone ==
    /\ pc = "cal_loop"
    /\ cal_idx > Len(calendar_ids)
    /\ pc' = "done"
    /\ UNCHANGED <<cmd, category, web, request_count, next_url, soup, inflight,
                   calendar_ids, cal_idx, items, item_idx, calendars_file,
                   items_file, likers_file, error, log, caller, walker,
                   walk_no, fails>>

\* crawl_calendar: get_page raises HttpException, nothing catches it
DetailRaise ==
    /\ pc = "detail_wait"
    /\ \E r \in Responses(Head(inflight)) :
        /\ r.status # OK
        /\ Arrive(r)
        /\ error' = HttpException(r.status)
    /\ pc' = "done"
    /\ UNCHANGED <<cmd, category, web, request_count, next_url, soup,
                   calendar_ids, cal_idx, items, item_idx, calendars_file,
                   items_file, likers_file, caller, walker, walk_no>>

\* crawl_calendar: the detail page arrives and is parsed; the calendars
\* command writes the rows, crawl_likers starts its loop over the items
DetailParsed ==
    /\ pc = "detail_wait"
    /\ \E r \in Responses(Head(inflight)) :
        /\ r.status = OK
        /\ Arrive(r)
        /\ soup' = r.doc
        /\ IF ~DetailOk(r.doc)
           THEN /\ error' = AttributeError
                /\ pc' = "done"
                /\ UNCHANGED <<cal_idx, items, item_idx, calendars_file,
                               items_file>>
           ELSE LET d == ParseDetail(Year, calendar_ids[cal_idx], r.doc) IN
                IF cmd = "calendars"
                THEN /\ calendars_file' = Append(calendars_file, d.calendar)
                     /\ items_file' = items_file \o d.items
                     /\ cal_idx' = cal_idx + 1
                     /\ pc' = "cal_loop"
                     /\ UNCHANGED <<error, items, item_idx>>
                ELSE /\ items' = d.items
                     /\ item_idx' = 1
                     /\ pc' = "item_loop"
                     /\ UNCHANGED <<error, cal_idx, calendars_file, items_file>>
    /\ UNCHANGED <<cmd, category, web, request_count, next_url, calendar_ids,
                   likers_file, caller, walker, walk_no>>

\* crawl_likers: for item in items ends, writerows returns
ItemsDone ==
    /\ pc = "item_loop"
    /\ item_idx > Len(items)
    /\ cal_idx' = cal_idx + 1
    /\ pc' = "cal_loop"
    /\ UNCHANGED <<cmd, category, web, request_count, next_url, soup, inflight,
                   calendar_ids, items, item_idx, calendars_file, items_file,
                   likers_file, error, log, caller, walker, walk_no, fails>>

\* crawl_likers: if not self.is_qiita_item(item.url): continue
ItemSkip ==
    /\ pc = "item_loop"
    /\ item_idx <= Len(items)
    /\ ~is_qiita_item(items[item_idx].url)
    /\ item_idx' = item_idx + 1
    /\ UNCHANGED <<cmd, category, web, request_count, pc, next_url, soup,
                   inflight, calendar_ids, cal_idx, items, calendars_file,
                   items_file, likers_file, error, log, caller, walker,
                   walk_no, fails>>

\* crawl_likers: the item is eligible, iterate_pagination(likers_url) starts
ItemWalk ==
    /\ pc = "item_loop"
    /\ item_idx <= Len(items)
    /\ is_qiita_item(items[item_idx].url)
    /\ next_url' = likers_url(items[item_idx].url)
    /\ walker' = NewWalker(likers_url(items[item_idx].url))
    /\ walk_no' = walk_no + 1
    /\ caller' = "crawl_likers"
    /\ pc' = "pg_loop"
    /\ UNCHANGED <<cmd, category, web, request_count, soup, inflight,
                   calendar_ids, cal_idx, items, item_idx, calendars_file,
                   items_file, likers_file, error, log, fails>>

\* crawl_likers, the body of the loop over one liker page, writerows
\* writing each Liker as it is yielded; then the next page is asked for.
\* An AttributeError at a user card is caught by the except of the item
LikersPage ==
    /\ pc = "pg_page"
    /\ caller = "crawl_likers"
    /\ LET r == ParseLikers(Year, calendar_ids[cal_idx],
                            items[item_idx].date, soup) IN
        /\ likers_file' = likers_file \o r.likers
        /\ IF r.ok
           THEN /\ Resume
                /\ UNCHANGED <<item_idx, walker, caller>>
           ELSE /\ pc' = "item_loop"
                /\ item_idx' = item_idx + 1
                /\ walker' = [walker EXCEPT !.state = "Closed"]
                /\ caller' = "none"
                /\ UNCHANGED next_url
    /\ UNCHANGED <<cmd, category, web, request_count, soup, inflight,
                   calendar_ids, cal_idx, items, calendars_file, items_file,
                   error, log, walk_no, fails>>

----------------------------------------------------------------------------

Next ==
    \/ Enumerate
    \/ WalkBegin
    \/ PaginationFetch
    \/ PaginationExhausted
    \/ PaginationYield
    \/ PaginationRaise
    \/ ListingPage
    \/ WalkNext
    \/ WalkStop
    \/ OpenOutputs
    \/ CalendarFetch
    \/ CommandDone
    \/ DetailRaise
    \/ DetailParsed
    \/ ItemsDone
    \/ ItemSkip
    \/ ItemWalk
    \/ LikersPage

Spec == Init /\ [][Next]_vars

\* the interpreter runs the one thread of the command to its end, and every
\* requests.get returns
FairSpec == Spec /\ WF_vars(Next)

----------------------------------------------------------------------------
(* What the site holds, for stating the properties *)

Commands == {"calendars", "likers"}

\* the URLs of the chain of pages that starts at start, in chain order
Chain(start) ==
    [p \in 1..(IF start \in Starts THEN web.pages ELSE web.liker_pages) |->
        ListingPageUrl(start, p)]

\* the events of the history of one kind
Events(kind) == SelectSeq(log, LAMBDA e : e.ev = kind)

\* a listing page or a detail page
PrimaryUrl(url) == StartsWith(url, Site \o <<"advent-calendar">>)

\* the detail page of calendar c, as the site publishes it
DetailUrl(c) == Site \o <<"advent-calendar", "2023", CalIds[c]>>

\* the Calendar that the detail page of calendar c stands for
SiteCalendar(c) ==
    [year |-> Year, calendar_id |-> CalIds[c], title |-> <<"title", CalIds[c]>>,
     url |-> DetailUrl(c), category |-> <<"category", CalIds[c]>>,
     participants_count |-> c, likes_count |-> c + 1,
     subscribers_count |-> c + 2]

\* how many events of one kind a history holds
Count(l, kind) == Len(SelectSeq(l, LAMBDA e : e.ev = kind))

IsPrefix(s, t) == Len(s) <= Len(t) /\ SubSeq(t, 1, Len(s)) = s

\* the data rows of an output file (all but the header row)
Rows(f) == IF f = <<>> THEN <<>> ELSE Tail(f)

\* item i of a calendar has an own-site, non-private URL
Eligible(i) == web.cells[i] \in {"own", "anon"}

ItemUrl(c, i) == ItemHref(web.cells[i], c, i)

\* the Liker that user card k of page p of the liker chain of item i of
\* calendar c stands for
SiteLiker(c, i, p, k) ==
    [year |-> Year, calendar_id |-> CalIds[c], date |-> i,
     user_name |-> <<"user", CalIds[c], DayTok[i], PageTok[p], PosTok[k]>>,
     user_url |-> Site \o <<"users", CalIds[c], DayTok[i], PageTok[p], PosTok[k]>>]

PageLikers(c, i, p) ==
    [k \in 1..UsersOnPage(web, p) |-> SiteLiker(c, i, p, k)]

\* the Likers of pages 1..p of the chain, in pagination order
RECURSIVE LikersUpTo(_, _, _)
LikersUpTo(c, i, p) ==
    IF p = 0 THEN <<>> ELSE LikersUpTo(c, i, p - 1) \o PageLikers(c, i, p)

\* the history holds a response with status OK (ok) or another status for
\* exactly url
Answered(url, ok) ==
    \E n \in 1..Len(log) :
        log[n].ev = "resp" /\ log[n].url = url /\ (log[n].arg = OK) = ok

\* the fetch of page p of the liker chain of item i failed
LikerFetchFailed(c, i, p) == Answered(LikersPageUrl(ItemUrl(c, i), p), FALSE)

\* crawl_likers met the user card without a name on a page of item i
BadUserMet(c, i) ==
    /\ web.fault.kind = "bad_user" /\ web.fault.cal = c /\ web.fault.item = i
    /\ Answered(LikersPageUrl(ItemUrl(c, i), web.fault.page), TRUE)

\* an error was raised in the liker walk of item i
WalkFailed(c, i) ==
    \/ \E p \in 1..web.liker_pages : LikerFetchFailed(c, i, p)
    \/ BadUserMet(c, i)

\* the rows of likers.tsv that belong to item i of calendar c
Contribution(c, i) ==
    SelectSeq(Rows(likers_file),
              LAMBDA r : r.calendar_id = CalIds[c] /\ r.date = i)

\* crawl_likers is through with item i of calendar c
Processed(c, i) ==
    /\ cmd = "likers"
    /\ \/ c < cal_idx
       \/ /\ c = cal_idx
          /\ pc \in {"item_loop", "pg_loop", "pg_wait", "pg_page"}
          /\ i < item_idx

\* the Likers yielded for item i before its walk ended
YieldedBeforeEnd(c, i) ==
    IF \E p \in 1..web.liker_pages : LikerFetchFailed(c, i, p)
    THEN LikersUpTo(c, i,
            (CHOOSE p \in 1..web.liker_pages : LikerFetchFailed(c, i, p)) - 1)
    ELSE IF BadUserMet(c, i)
    THEN LikersUpTo(c, i, web.fault.page - 1)
         \o SubSeq(PageLikers(c, i, web.fault.page), 1, web.fault.pos - 1)
    ELSE LikersUpTo(c, i, web.liker_pages)

\* the fetch or the parse of the detail page of calendar c failed
DetailFailed(c) ==
    \/ Answered(DetailUrl(c), FALSE)
    \/ /\ web.fault.kind = "bad_detail" /\ web.fault.cal = c
       /\ Answered(DetailUrl(c), TRUE)

\* the exception that ended the command was raised on the primary path
PrimaryError ==
    /\ error.type = "HttpException" =>
        /\ log # <<>>
        /\ Last(log).ev = "resp"
        /\ Last(log).arg = error.status_code
        /\ Last(log).arg # OK
        /\ StartsWith(Last(log).url, Site \o <<"advent-calendar">>)
    /\ error.type = "AttributeError" =>
        web.fault.kind \in {"bad_row", "bad_detail"}
    /\ error.type = "ValueError" => calendar_ids = <<>>

----------------------------------------------------------------------------
(* C1: a walk that iterate_pagination ends by exhaustion has fetched and  *)
(* yielded exactly the K pages of the chain it was started on, in chain   *)
(* order; once the K-th page was yielded and the next one is asked for    *)
(* there is no next URL, and an exhausted walk never fetches again.       *)

C1_ExhaustedWalk ==
    /\ walker.state = "Exhausted" =>
        /\ walker.yielded = Chain(walker.start)
        /\ walker.fetched = Chain(walker.start)
    /\ (pc = "pg_loop" /\ walker.yielded = Chain(walker.start)) =>
        next_url = None

\* C1: an exhausted walk holds exactly its chain, and never fetches again.
C1_Termination ==
    /\ []C1_ExhaustedWalk
    /\ [][walker.state = "Exhausted" =>
            (walker' = walker \/ walk_no' # walk_no)]_vars

C1_Witness ==
    /\ cmd = "walk"
    /\ walker.state = "Exhausted"
    /\ Len(walker.yielded) = MaxPages
    /\ request_count = MaxPages

----------------------------------------------------------------------------
(* C2 as stated: an item whose liker walk raised an error, on whichever    *)
(* page, has no row at all in the output.                                  *)

----------------------------------------------------------------------------
(* C3: in the likers command every GET is for a page of the listing chain, *)
(* for the detail page of a listed calendar (at most once each) or for a   *)
(* liker page of an item whose url is own-site and not private; no GET is  *)
(* made for an item whose url is null, foreign or private, and every Liker *)
(* written belongs to an eligible item.                                    *)

C3_FanOutFilter ==
    cmd = "likers" =>
        /\ \A n \in 1..Len(log) : log[n].ev = "get" =>
            \/ \E p \in 1..web.pages :
                log[n].url = ListingPageUrl(calendars_url(Year), p)
            \/ \E c \in 1..web.cals :
                /\ log[n].url = Site \o <<"advent-calendar", "2023", CalIds[c]>>
                /\ \A m \in 1..Len(log) :
                    (log[m].ev = "get" /\ log[m].url = log[n].url) => m = n
            \/ \E c \in 1..web.cals, i \in 1..Len(web.cells),
                  p \in 1..web.liker_pages :
                /\ Eligible(i)
                /\ log[n].url = LikersPageUrl(ItemUrl(c, i), p)
        /\ \A c \in 1..web.cals, i \in 1..Len(web.cells) :
            ~Eligible(i) =>
                /\ Contribution(c, i) = <<>>
                /\ \A n \in 1..Len(log) : log[n].ev = "get" =>
                    ~StartsWith(log[n].url, ItemUrl(c, i))
        /\ \A n \in 1..Len(Rows(likers_file)) :
            \E c \in 1..web.cals, i \in 1..Len(web.cells) :
                /\ Eligible(i)
                /\ Rows(likers_file)[n].calendar_id = CalIds[c]
                /\ Rows(likers_file)[n].date = i

\* a private item between two own-site items: both neighbours are crawled
C3_Witness ==
    /\ cmd = "likers"
    /\ pc = "done"
    /\ error = NoError
    /\ web.cells = <<"own", "private", "own">>
    /\ Contribution(1, 1) # <<>>
    /\ Contribution(1, 2) = <<>>
    /\ Contribution(1, 3) # <<>>

----------------------------------------------------------------------------
(* C4: request_count is always the number of get_page invocations made so  *)
(* far (GETs sent, whether their response was 200, another status, or is   *)
(* still awaited); it starts at 0, and a step either leaves it alone or is *)
(* one get_page invocation (from iterate_pagination or crawl_calendar)     *)
(* that raises it by exactly 1.                                            *)

C4_CountsInvocations ==
    /\ request_count = Count(log, "get")
    /\ request_count = Count(log, "resp") + Len(inflight)

\* C4: request_count equals the get_page invocations, and each one adds 1.
C4_RequestCounter ==
    /\ []C4_CountsInvocations
    /\ [][\/ /\ request_count' = request_count
             /\ Count(log', "get") = Count(log, "get")
          \/ /\ request_count' = request_count + 1
             /\ Count(log', "get") = Count(log, "get") + 1
             /\ pc \in {"pg_loop", "cal_loop"}
             /\ pc' \in {"pg_wait", "detail_wait"}]_vars

\* listing, detail and liker fetches, one of them failed, all counted
C4_Witness ==
    /\ cmd = "likers"
    /\ pc = "done"
    /\ request_count = 6
    /\ Count(log, "resp") = 6
    /\ \E n \in 1..Len(log) : log[n].ev = "resp" /\ log[n].arg = UNAVAILABLE
    /\ Len(Rows(likers_file)) > 0

----------------------------------------------------------------------------
(* C5: in a command, a response with a status other than 200 to the GET of *)
(* a listing page or of a detail page is the last event of the session:    *)
(* the command has ended with HttpException carrying that status code, the *)
(* URL was requested once and nothing is requested after it.               *)

C5_PrimaryHttpFailure ==
    cmd \in Commands =>
        \A n \in 1..Len(log) :
            (log[n].ev = "resp" /\ log[n].arg # OK /\ PrimaryUrl(log[n].url)) =>
                /\ n = Len(log)
                /\ inflight = <<>>
                /\ pc = "done"
                /\ error = [type |-> "HttpException", status_code |-> log[n].arg]
                /\ \A m \in 1..Len(log) :
                    (log[m].ev = "get" /\ log[m].url = log[n].url) => m = n - 1

\* the second of two listed calendars has no detail page: 404 after one row
C5_Witness ==
    /\ cmd = "calendars"
    /\ pc = "done"
    /\ web.cals = 2
    /\ error = [type |-> "HttpException", status_code |-> NOT_FOUND]
    /\ Len(Rows(calendars_file)) = 1
    /\ request_count = web.pages + 2

----------------------------------------------------------------------------
(* C6: when the calendars command has ended on a well-formed site of K     *)
(* listing pages listing N >= 1 calendars, every GET answered 200, it has  *)
(* ended without error, written exactly one Calendar row per listed        *)
(* calendar in listing order (calendar_id the listed id) followed in the   *)
(* items file by that calendar's items, and made K listing GETs followed   *)
(* by N detail GETs: request_count = K + N.                                *)

C6_EndToEnd ==
    (/\ cmd = "calendars"
     /\ pc = "done"
     /\ web.cals >= 1
     /\ fails = 0
     /\ web.fault.kind \notin {"bad_row", "bad_detail", "gone"}) =>
        LET K == web.pages
            N == web.cals
            M == Len(web.cells)
            gets == Events("get")
        IN
        /\ error = NoError
        /\ calendars_file[1] = CalendarFields
        /\ items_file[1] = ItemFields
        /\ Len(Rows(calendars_file)) = N
        /\ \A c \in 1..N : Rows(calendars_file)[c].calendar_id = CalIds[c]
        /\ Len(Rows(items_file)) = N * M
        /\ \A c \in 1..N, i \in 1..M :
            /\ Rows(items_file)[(c - 1) * M + i].calendar_id = CalIds[c]
            /\ Rows(items_file)[(c - 1) * M + i].date = i
        /\ request_count = K + N
        /\ Len(gets) = K + N
        /\ \A n \in 1..K :
            gets[n].url = ListingPageUrl(ListingUrl(Year, category), n)
        /\ \A c \in 1..N :
            gets[K + c].url = Site \o <<"advent-calendar", "2023", CalIds[c]>>

\* two listing pages listing cal-a and cal-b: two rows and four requests
C6_Witness ==
    /\ cmd = "calendars"
    /\ pc = "done"
    /\ error = NoError
    /\ fails = 0
    /\ web.pages = 2
    /\ web.cals = 2
    /\ Len(Rows(calendars_file)) = 2
    /\ Rows(calendars_file)[1].calendar_id = "cal-a"
    /\ Rows(calendars_file)[2].calendar_id = "cal-b"
    /\ request_count = 4

----------------------------------------------------------------------------
(* C7: in the likers command, when the fetch or the parse of the detail    *)
(* page of a calendar fails, the command has ended with that error, that   *)
(* response is the last event, and the calendar has no Liker row and no    *)
(* GET of a liker page; whereas no step taken inside an item's liker walk  *)
(* sets the error or ends the command, and an error that did end it was    *)
(* raised on the primary path.                                             *)

C7_PrimaryFailureEnds ==
    cmd = "likers" =>
        /\ \A c \in 1..web.cals : DetailFailed(c) =>
            /\ pc = "done"
            /\ error.type \in {"HttpException", "AttributeError"}
            /\ error.type = "HttpException" <=> Answered(DetailUrl(c), FALSE)
            /\ Last(log).ev = "resp" /\ Last(log).url = DetailUrl(c)
            /\ \A i \in 1..Len(web.cells) : Contribution(c, i) = <<>>
            /\ \A n \in 1..Len(log) : log[n].ev = "get" =>
                ~StartsWith(log[n].url, Site \o <<CalIds[c]>>)
        /\ PrimaryError

\* C7: a primary failure ends the likers command; a liker-walk step never does.
C7_ErrorPropagation ==
    /\ []C7_PrimaryFailureEnds
    /\ [][caller = "crawl_likers" => (error' = error /\ pc' # "done")]_vars

\* a liker fetch of the first calendar failed and was passed over; the
\* missing detail page of the second calendar ended the command
C7_Witness ==
    /\ cmd = "likers"
    /\ pc = "done"
    /\ web.cals = 2
    /\ LikerFetchFailed(1, 1, 1)
    /\ DetailFailed(2)
    /\ error = [type |-> "HttpException", status_code |-> NOT_FOUND]

----------------------------------------------------------------------------
(* C8: in the calendars command, when the fetch or the parse of the detail *)
(* page of the j-th calendar fails, the command has ended with that error, *)
(* calendars.tsv holds the header and exactly the rows of calendars        *)
(* 1..j-1 in order, items.tsv the header and exactly their items in order; *)
(* and no step ever removes or rewrites a row already written.             *)

C8_RowsBeforeFailure ==
    cmd = "calendars" =>
        \A j \in 1..web.cals : DetailFailed(j) =>
            LET M == Len(web.cells) IN
            /\ pc = "done"
            /\ error.type \in {"HttpException", "AttributeError"}
            /\ calendars_file = <<CalendarFields>> \o [c \in 1..(j - 1) |-> SiteCalendar(c)]
            /\ items_file[1] = ItemFields
            /\ Len(Rows(items_file)) = (j - 1) * M
            /\ \A c \in 1..(j - 1), i \in 1..M :
                /\ Rows(items_file)[(c - 1) * M + i].calendar_id = CalIds[c]
                /\ Rows(items_file)[(c - 1) * M + i].date = i

\* C8: the rows written before a detail failure stay, and nothing follows them.
C8_PartialOutput ==
    /\ []C8_RowsBeforeFailure
    /\ [][/\ IsPrefix(calendars_file, calendars_file')
          /\ IsPrefix(items_file, items_file')]_vars

\* the detail page of the second calendar lacks its heading: the rows of
\* the first calendar stay in both files
C8_Witness ==
    /\ cmd = "calendars"
    /\ pc = "done"
    /\ error = AttributeError
    /\ web.fault = [NoFault EXCEPT !.kind = "bad_detail", !.cal = 2]
    /\ calendars_file = <<CalendarFields, SiteCalendar(1)>>
    /\ Len(Rows(items_file)) = 1

----------------------------------------------------------------------------
(* C9: whenever iterate_pagination is suspended at a yield it has fetched  *)
(* exactly the pages it has yielded; a page is fetched only when the       *)
(* consumer has asked for the element after the last yielded one; a walk   *)
(* whose consumer stopped after j documents made exactly j fetches and     *)
(* makes none afterwards; and every invocation starts with no fetch made,  *)
(* at its start URL, and fetches a prefix of the chain of that URL.        *)

C9_FetchesMatchYields ==
    /\ pc = "pg_page" => walker.fetched = walker.yielded
    /\ walker.state = "Closed" => walker.fetched = walker.yielded
    /\ IsPrefix(walker.yielded, walker.fetched)
    /\ Len(walker.fetched) <= Len(walker.yielded) + 1
    /\ walker.state # "None" => IsPrefix(walker.fetched, Chain(walker.start))

\* C9: at every yield the fetches equal the pages yielded; none is prefetched.
C9_LazyPagination ==
    /\ []C9_FetchesMatchYields
    /\ [][/\ walker.state = "Closed" =>
                (walker' = walker \/ walk_no' # walk_no)
          /\ Len(walker'.fetched) > Len(walker.fetched) =>
                /\ pc = "pg_loop"
                /\ walker.fetched = walker.yielded
                /\ walker'.fetched = Append(walker.fetched, next_url)
          /\ walk_no' # walk_no =>
                /\ walker' = NewWalker(walker'.start)
                /\ next_url' = walker'.start]_vars

\* a first walk went through both pages; the consumer of the second walk
\* stopped after one document: one more fetch, three in all
C9_Witness ==
    /\ cmd = "walk"
    /\ web.pages = 2
    /\ walk_no = 2
    /\ walker.state = "Closed"
    /\ Len(walker.yielded) = 1
    /\ request_count = 3
    /\ pc = "idle"

----------------------------------------------------------------------------
(* C10: in the history of a session every GET comes right after one sleep  *)
(* of WAIT_SEC seconds, and every sleep but the first right after the      *)
(* response to the previous GET, whatever its status; at most one request  *)
(* is in flight in any state.                                              *)

C10_Politeness ==
    /\ \A n \in 1..Len(log) :
        /\ log[n].ev = "get" =>
            /\ n > 1
            /\ log[n - 1].ev = "sleep"
            /\ log[n - 1].arg = WAIT_SEC
        /\ log[n].ev = "sleep" => (n = 1 \/ log[n - 1].ev = "resp")
        /\ log[n].ev = "resp" => (log[n - 1].ev = "get" /\ log[n - 1].url = log[n].url)
    /\ Len(inflight) <= 1

\* the fetch of a liker page of the first item failed and was caught: the
\* first liker fetch of the second item still comes after a sleep
C10_Witness ==
    /\ cmd = "likers"
    /\ Len(web.cells) >= 2
    /\ \E n \in 1..(Len(log) - 2) :
        /\ log[n].ev = "resp"
        /\ log[n].arg = UNAVAILABLE
        /\ StartsWith(log[n].url, likers_url(ItemUrl(1, 1)))
        /\ log[n + 1].ev = "sleep"
        /\ log[n + 2].ev = "get"
        /\ log[n + 2].url = likers_url(ItemUrl(1, 2))

----------------------------------------------------------------------------
(* C11: the Likers written for a calendar are the concatenation, over its  *)
(* eligible items in the order of the detail page, of the Likers each      *)
(* item's walk yielded, page 1 first and in document order within a page;  *)
(* over the whole file the rows follow the order of the site, and every    *)
(* row written by a step carries the year and calendar_id of the crawl and *)
(* the date of the item whose liker walk is running, on the page that walk *)
(* has just yielded.                                                       *)

\* the Likers yielded for items 1..i of calendar c, in item order
RECURSIVE LikersOfItems(_, _)
LikersOfItems(c, i) ==
    IF i = 0 THEN <<>>
    ELSE LikersOfItems(c, i - 1)
         \o (IF Eligible(i) THEN YieldedBeforeEnd(c, i) ELSE <<>>)

\* every Liker the site holds: calendars in listing order, items in grid
\* order, pages in chain order, user cards in document order
RECURSIVE SiteLikers(_, _)
SiteLikers(c, i) ==
    IF c = 0 THEN <<>>
    ELSE IF i = 0 THEN SiteLikers(c - 1, Len(web.cells))
    ELSE SiteLikers(c, i - 1)
         \o (IF Eligible(i) THEN LikersUpTo(c, i, web.liker_pages) ELSE <<>>)

\* the rows of likers.tsv that belong to calendar c
CalendarLikers(c) ==
    SelectSeq(Rows(likers_file), LAMBDA r : r.calendar_id = CalIds[c])

C11_OrderedAndTagged ==
    cmd = "likers" =>
        LET all == SiteLikers(web.cals, Len(web.cells))
            rows == Rows(likers_file)
            at(r) == CHOOSE n \in 1..Len(all) : all[n] = r
        IN
        /\ \A n \in 1..Len(rows) :
            /\ \E m \in 1..Len(all) : all[m] = rows[n]
            /\ rows[n].year = Year
            /\ \A m \in 1..(n - 1) : at(rows[m]) < at(rows[n])
        /\ \A c \in 1..web.cals : (c < cal_idx \/ (c = cal_idx /\ pc = "done" /\ error = NoError)) =>
            CalendarLikers(c) = LikersOfItems(c, Len(web.cells))
        /\ (pc = "done" /\ error = NoError /\ fails = 0 /\ web.fault = NoFault) =>
            rows = all

\* C11: Likers are written in site order, tagged with the item being walked.
C11_LikerOrdering ==
    /\ []C11_OrderedAndTagged
    /\ [][likers_file' # likers_file /\ likers_file # <<>> =>
            /\ caller = "crawl_likers"
            /\ IsPrefix(likers_file, likers_file')
            /\ \A n \in (Len(likers_file) + 1)..Len(likers_file') :
                /\ likers_file'[n].year = Year
                /\ likers_file'[n].calendar_id = calendar_ids[cal_idx]
                /\ likers_file'[n].date = items[item_idx].date
                /\ \E k \in 1..UsersOnPage(web, Len(walker.yielded)) :
                    likers_file'[n] =
                        SiteLiker(cal_idx, item_idx, Len(walker.yielded), k)]_vars

\* two items of two liker pages each around a foreign one: six rows, three
\* of the first item and then three of the third
C11_Witness ==
    /\ cmd = "likers"
    /\ pc = "done"
    /\ error = NoError
    /\ web.cells = <<"own", "foreign", "own">>
    /\ web.liker_pages = 2
    /\ Len(Rows(likers_file)) = 2 * (MaxUsers + 1)
    /\ Rows(likers_file)[MaxUsers + 1] = SiteLiker(1, 1, 2, 1)
    /\ Rows(likers_file)[MaxUsers + 2] = SiteLiker(1, 3, 1, 1)

----------------------------------------------------------------------------
(* C12: for a listing page whose N rows are all well-formed the listing    *)
(* step of crawl_calendars yields exactly N references, in document order, *)
(* each with its link text as title, an absolute URL and a non-empty id    *)
(* that is the last path segment of that URL; over the chain the ids of    *)
(* page p all come before those of page p + 1, so that an exhausted chain  *)
(* has listed every calendar of the site once, in listing order.           *)

\* the ids the site lists, over the whole chain
ListedIds == [n \in 1..web.cals |-> CalIds[n]]

\* the listing page held by the consumer of crawl_calendars is well-formed
WellFormedPage == \A j \in 1..Len(soup.rows) : soup.rows[j].anchor

C12_RefsOfPage ==
    cmd \in Commands =>
        /\ (pc = "pg_page" /\ caller = "crawl_calendars" /\ WellFormedPage) =>
            LET p == Len(walker.yielded)
                N == Len(soup.rows)
                r == ParseListing(soup)
            IN
            /\ N = RowsOnPage(web, p)
            /\ r.ok
            /\ Len(r.refs) = N
            /\ \A j \in 1..N :
                LET ref == r.refs[j]
                    n == FirstRow(web, p) + j - 1
                IN
                /\ ref.title = soup.rows[j].text
                /\ ref.title = <<"title", CalIds[n]>>
                /\ ref.url = Site \o <<"advent-calendar", "2023", CalIds[n]>>
                /\ ref.url[1] \in Origins
                /\ ref.calendar_id = ref.url[Len(ref.url)]
                /\ ref.calendar_id = CalIds[n]
                /\ ref.calendar_id # ""
        /\ IsPrefix(calendar_ids, ListedIds)
        /\ pc \in {"open", "cal_loop", "detail_wait", "item_loop"} =>
            calendar_ids = ListedIds

\* C12: a well-formed page of N rows adds its N ids, in order, to the ids so far.
C12_ListingParse ==
    /\ []C12_RefsOfPage
    /\ [][(/\ cmd \in Commands
           /\ pc = "pg_page"
           /\ caller = "crawl_calendars"
           /\ WellFormedPage) =>
            LET p == Len(walker.yielded) IN
            /\ calendar_ids' = calendar_ids
                \o [j \in 1..RowsOnPage(web, p) |-> CalIds[FirstRow(web, p) + j - 1]]
            /\ error' = error]_vars

\* three calendars on two pages: two ids from the first page, then the one
\* of the second page
C12_Witness ==
    /\ cmd \in Commands
    /\ web.pages = 2
    /\ web.cals = 3
    /\ pc = "pg_loop"
    /\ caller = "crawl_calendars"
    /\ Len(walker.yielded) = 2
    /\ Len(soup.rows) = 1
    /\ calendar_ids = <<"cal-a", "cal-b", "cal-c">>

----------------------------------------------------------------------------
(* C13: for a detail page whose grid has M day cells crawl_calendar        *)
(* returns exactly M Items, in grid order, one per cell whether or not the *)
(* cell has an author or a comment; user_name and user_url are both set    *)
(* iff the cell has an author link and both null otherwise, url is set iff *)
(* the comment block holds a link, and title is set iff the cell has a     *)
(* comment block (a comment with text but no link: title set, url null).   *)

\* crawl_calendar has returned for calendar c and its Items can be seen
ItemsReturned(c) ==
    \/ /\ cmd = "calendars"
       /\ pc \in {"cal_loop", "detail_wait", "done"}
       /\ c < cal_idx
    \/ /\ cmd = "likers"
       /\ pc \in {"item_loop", "pg_loop", "pg_wait", "pg_page"}
       /\ c = cal_idx

\* the Items crawl_calendar returned for calendar c: the rows the calendars
\* command wrote for it, or the list crawl_likers loops over
ItemsOf(c) ==
    IF cmd = "calendars"
    THEN SubSeq(Rows(items_file), (c - 1) * Len(web.cells) + 1,
                c * Len(web.cells))
    ELSE items

C13_DetailParse ==
    \A c \in 1..web.cals : ItemsReturned(c) =>
        LET M == Len(web.cells)
            got == ItemsOf(c)
        IN
        /\ cmd = "calendars" => Len(Rows(items_file)) >= c * M
        /\ Len(got) = M
        /\ \A i \in 1..M :
            LET td == DetailDoc(web, c).cells[i]
                it == got[i]
            IN
            /\ it.year = Year
            /\ it.calendar_id = CalIds[c]
            /\ it.date = i
            /\ it.user_name # None <=> td.author
            /\ it.user_url # None <=> td.author
            /\ td.author =>
                /\ it.user_name = <<"author", DayTok[i]>>
                /\ it.user_url = Site \o <<"author", DayTok[i]>>
            /\ it.title # None <=> td.comment
            /\ td.comment => it.title = td.comment_text
            /\ it.url # None <=> (td.comment /\ td.link)
            /\ (td.comment /\ td.link) => it.url = ItemUrl(c, i)
            /\ web.cells[i] = "text" => (it.title # None /\ it.url = None)
            /\ web.cells[i] = "empty" =>
                /\ it.user_name = None /\ it.user_url = None
                /\ it.title = None /\ it.url = None

\* a comment without a link between two full cells: three Items, the second
\* with an author and a title but no url
C13_Witness ==
    /\ cmd = "calendars"
    /\ pc = "done"
    /\ error = NoError
    /\ web.cells = <<"own", "text", "own">>
    /\ Len(Rows(items_file)) = 3
    /\ Rows(items_file)[2].date = 2
    /\ Rows(items_file)[2].user_name # None
    /\ Rows(items_file)[2].title # None
    /\ Rows(items_file)[2].url = None
    /\ Rows(items_file)[3].url # None

----------------------------------------------------------------------------
(* C14: when a listing row lacks its title anchor, crawl_calendars raises  *)
(* at that row: the command has ended with AttributeError, the references  *)
(* produced are exactly those of the rows before it (none for that row or  *)
(* a later one), the response that brought the page is the last event of   *)
(* the session (no further listing page, no detail page is fetched) and no *)
(* output file was opened.                                                 *)

\* the listing page that holds row r
PageOfRow(r) ==
    CHOOSE p \in 1..web.pages :
        FirstRow(web, p) <= r /\ r < FirstRow(web, p) + RowsOnPage(web, p)

\* the listing step has been taken on the page that holds the bad row
BadRowMet ==
    /\ cmd \in Commands
    /\ web.fault.kind = "bad_row"
    /\ Answered(ListingPageUrl(ListingUrl(Year, category), PageOfRow(web.fault.cal)), TRUE)
    /\ pc # "pg_page"

C14_AbortedAtBadRow ==
    BadRowMet =>
        LET r == web.fault.cal
            p == PageOfRow(r)
        IN
        /\ pc = "done"
        /\ error = AttributeError
        /\ calendar_ids = [n \in 1..(r - 1) |-> CalIds[n]]
        /\ Last(log).ev = "resp"
        /\ Last(log).url = ListingPageUrl(ListingUrl(Year, category), p)
        /\ inflight = <<>>
        /\ request_count = p
        /\ Count(log, "get") = p
        /\ walker.fetched = SubSeq(Chain(walker.start), 1, p)
        /\ calendars_file = <<>> /\ items_file = <<>> /\ likers_file = <<>>

\* C14: a row without its title anchor ends the command there, with an error.
C14_SchemaDrift ==
    /\ []C14_AbortedAtBadRow
    /\ [][(/\ pc = "pg_page"
           /\ caller = "crawl_calendars"
           /\ ~WellFormedPage) =>
            /\ pc' = "done"
            /\ error' = AttributeError
            /\ request_count' = request_count
            /\ Len(calendar_ids') = web.fault.cal - 1]_vars

\* the second row of the first of two pages has no anchor: one reference,
\* one request, the second page never asked for
C14_Witness ==
    /\ cmd \in Commands
    /\ web.pages = 2
    /\ web.cals = 3
    /\ web.fault = [NoFault EXCEPT !.kind = "bad_row", !.cal = 2]
    /\ pc = "done"
    /\ error = AttributeError
    /\ calendar_ids = <<"cal-a">>
    /\ request_count = 1

----------------------------------------------------------------------------
(* C15: when the fetch of page j of the liker walk of item i fails, that   *)
(* page was requested once and is counted once, no page of item i is       *)
(* requested afterwards (page j is not retried, pages j+1.. never asked    *)
(* for), and the next fetch, if any, is the first liker page of the next   *)
(* eligible item of the calendar, or, when there is none, the detail page  *)
(* of the next calendar, fetched by the next invocation of crawl_likers;   *)
(* the failure is not the command's error, and crawl_likers goes through   *)
(* the remaining items and returns.                                        *)

\* item i has an eligible item after it in the grid
HasNextEligible(i) == \E k \in (i + 1)..Len(web.cells) : Eligible(k)

\* the first eligible item after item i
NextEligible(i) ==
    CHOOSE k \in (i + 1)..Len(web.cells) :
        Eligible(k) /\ \A l \in (i + 1)..(k - 1) : ~Eligible(l)

\* a liker fetch has failed in the invocation of crawl_likers that is
\* running, the one for calendar cal_idx, which has not returned yet
LikerFailurePending ==
    /\ cmd = "likers"
    /\ pc \in {"item_loop", "pg_loop", "pg_wait", "pg_page"}
    /\ cal_idx \in 1..web.cals
    /\ \E n \in 1..Len(log) :
        /\ log[n].ev = "resp"
        /\ log[n].arg # OK
        /\ StartsWith(log[n].url, Site \o <<CalIds[cal_idx]>>)

C15_AbandonedItem ==
    cmd = "likers" =>
        \A n \in 1..Len(log) : (log[n].ev = "resp" /\ log[n].arg # OK) =>
            \A c \in 1..web.cals, i \in 1..Len(web.cells), j \in 1..web.liker_pages :
                (Eligible(i) /\ log[n].url = LikersPageUrl(ItemUrl(c, i), j)) =>
                    /\ \A m \in 1..Len(log) :
                        (log[m].ev = "get" /\ log[m].url = log[n].url) => m = n - 1
                    /\ \A m \in 1..Len(log) :
                        (log[m].ev = "get" /\ StartsWith(log[m].url, ItemUrl(c, i))) =>
                            /\ m < n
                            /\ \E q \in 1..j : log[m].url = LikersPageUrl(ItemUrl(c, i), q)
                    /\ request_count = Count(log, "get")
                    /\ Len(log) >= n + 2 =>
                        /\ log[n + 1].ev = "sleep"
                        /\ log[n + 2].ev = "get"
                        /\ log[n + 2].url =
                            IF HasNextEligible(i)
                            THEN LikersPageUrl(ItemUrl(c, NextEligible(i)), 1)
                            ELSE DetailUrl(c + 1)
                        /\ ~HasNextEligible(i) => c + 1 <= web.cals
                    /\ error # NoError => (pc = "done" /\ cal_idx > c)
                    /\ (pc = "done" /\ error = NoError) =>
                        cal_idx = Len(calendar_ids) + 1

\* C15: a failed liker fetch ends that item's walk only; crawl_likers returns.
C15_Abandonment ==
    /\ []C15_AbandonedItem
    /\ [][(/\ caller = "crawl_likers"
           /\ pc = "pg_wait"
           /\ Len(log') > Len(log)
           /\ Last(log').arg # OK) =>
            /\ pc' = "item_loop"
            /\ item_idx' = item_idx + 1
            /\ error' = error
            /\ request_count' = request_count
            /\ inflight' = <<>>]_vars
    /\ LikerFailurePending ~> ~LikerFailurePending

\* the second page of the first item failed: the next request is the first
\* liker page of the third item, the second item being private
C15_Witness ==
    /\ cmd = "likers"
    /\ pc = "done"
    /\ error = NoError
    /\ web.cells = <<"own", "private", "own">>
    /\ web.liker_pages = 2
    /\ LikerFetchFailed(1, 1, 2)
    /\ request_count = 6
    /\ \E n \in 1..(Len(log) - 2) :
        /\ log[n].ev = "resp"
        /\ log[n].arg = UNAVAILABLE
        /\ log[n].url = LikersPageUrl(ItemUrl(1, 1), 2)
        /\ log[n + 2].ev = "get"
        /\ log[n + 2].url = LikersPageUrl(ItemUrl(1, 3), 1)
    /\ Contribution(1, 3) = LikersUpTo(1, 3, 2)

----------------------------------------------------------------------------
(* C16 as stated: when the listing chain is fetched successfully but lists *)
(* no calendar, the command has ended without error, has fetched no detail *)
(* or liker page, has left only the header row in its output files and     *)
(* its request count is the number of listing pages.                       *)

\* a command has ended after a listing chain that was fetched page by page
\* and lists no calendar
EmptyListingEnded ==
    /\ cmd \in Commands
    /\ pc = "done"
    /\ web.cals = 0
    /\ \A p \in 1..web.pages :
        Answered(ListingPageUrl(ListingUrl(Year, category), p), TRUE)

\* the output files of the command hold their header row and nothing else
OnlyHeaders ==
    IF cmd = "calendars"
    THEN calendars_file = <<CalendarFields>> /\ items_file = <<ItemFields>>
    ELSE likers_file = <<LikerFields>>

\* every request of the session was for a page of the listing chain
OnlyListingFetches ==
    /\ request_count = web.pages
    /\ \A n \in 1..Len(log) : log[n].ev = "get" =>
        \E p \in 1..web.pages :
            log[n].url = ListingPageUrl(ListingUrl(Year, category), p)

C16_EmptyEnumeration ==
    EmptyListingEnded =>
        /\ error = NoError
        /\ OnlyHeaders
        /\ OnlyListingFetches

(* C16 as the code runs: after the header rows are written, max() over the *)
(* empty list of ids raises ValueError, which ends the command before its  *)
(* loop and before it reports the request count; the files hold only their *)
(* header rows and only listing pages were fetched.                        *)

C16_EmptyListingRaises ==
    EmptyListingEnded =>
        /\ error = ValueError
        /\ OnlyHeaders
        /\ OnlyListingFetches

\* two listing pages without a row: two requests, the header row, ValueError
C16_Witness ==
    /\ EmptyListingEnded
    /\ cmd = "likers"
    /\ web.pages = 2
    /\ error = ValueError
    /\ likers_file = <<LikerFields>>
    /\ request_count = 2

====
